---- MODULE Spec2Model ----
(***************************************************************************)
(* Model of the site speed checker: the bounded fan-out prober            *)
(* (testMetrics / testLatency), the run orchestrator (runMetricsTests /    *)
(* runLatencyTests), the aggregator (calculateStats), the ranker          *)
(* (rankSites) and the selector (selectFlashscoreURL), in the two-metric   *)
(* variant ("metrics") and the single-metric variant ("latency").          *)
(*                                                                         *)
(* An endpoint (URL) is a number 1..nSites; a duration is a natural        *)
(* number of time units.                                                   *)
(***************************************************************************)
EXTENDS Integers, Sequences, FiniteSets, TLC

\* ---------------------------------------------------------------- bounds
\* Largest number of endpoints given to the fan-out scheduler.
MaxSites == 3
\* Largest run count given to the orchestrator.
MaxRuns == 2
\* Largest concurrency limit given to the fan-out scheduler.
MaxLimit == 2
\* Largest duration a probe of the scheduler model measures.
MaxProbeDur == 1
\* Largest number of probes (endpoints x runs) of one orchestrator call.
MaxProbes == 4
\* Largest duration of a sample given to the aggregator.
MaxDur == 2
\* Largest size of an input of the aggregator: endpoints x runs x MaxDur.
MaxSampleLoad == 12

Variants == {"metrics", "latency"}
ProbeDurations == 1..MaxProbeDur

VARIABLES
    variant,          \* which program: "metrics" or "latency"
    nSites,           \* len(sites); sites = <<1, ..., nSites>>
    concurrencyLimit, \* argument of testMetrics / testLatency
    runs,             \* argument of runMetricsTests / runLatencyTests
    i,                \* loop variable of the orchestrator (0-based)
    mpc,              \* position of the calling goroutine (orchestrator)
    launched,         \* number of goroutines the current batch has started
    wg,               \* sync.WaitGroup counter
    sem,              \* number of tokens in the semaphore channel
    mu,               \* holder of the mutex, 0 when unlocked
    gpc,              \* position of each per-endpoint goroutine
    out,              \* each goroutine's probe outcome (local variables)
    tmp,              \* each goroutine's read of results during append
    results,          \* the shared result slice of the current batch
    allResults,       \* the orchestrator's run x endpoint sample matrix
    calls,            \* history: calls of the fan-out scheduler so far
    slept,            \* history: pacing delays elapsed so far
    hist,             \* history: the batch each scheduler call returned
    probed,           \* history: what each probe of the current batch returned
    ppc,              \* position in the pipeline aggregate -> rank -> select
    stats,            \* calculateStats' map URL -> SiteStats
    rankedSites,      \* rankSites' output / the sorted stats of "latency"
    thresholdPercent, \* argument of selectFlashscoreURL
    draw,             \* rand.Float64() of the selector, in tenths
    selectedURL,      \* result of selectFlashscoreURL, 0 before it
    epc,              \* detectEnglishSites: position of the caller
    started,          \* detectEnglishSites: workers started so far
    ewg,              \* detectEnglishSites: sync.WaitGroup counter
    ch,               \* detectEnglishSites: buffer of the results channel
    closed,           \* detectEnglishSites: the results channel is closed
    wpc,              \* detectEnglishSites: position of each worker
    cpc,              \* detectEnglishSites: position of the closing goroutine
    verdict,          \* history: what isEnglish returned for each site
    englishSites      \* detectEnglishSites: the slice it collects and returns

fanVars == <<variant, nSites, concurrencyLimit, runs, i, mpc, launched, wg,
             sem, mu, gpc, out, tmp, results, allResults, calls, slept, hist,
             probed>>

engVars == <<epc, started, ewg, ch, closed, wpc, cpc, verdict, englishSites>>

pipeVars == <<ppc, stats, rankedSites, thresholdPercent, draw, selectedURL,
              engVars>>

vars == <<fanVars, pipeVars>>

Sites == 1..nSites
NoSample == <<>>

\* ------------------------------------------------------------ sequences
Range(s) == {s[k] : k \in DOMAIN s}

\* All orders of the indexes 1..n, for the lengths the model meets.
OrdersOfLen ==
    [n \in 0..MaxSites |->
        {p \in [1..n -> 1..n] : \A a, b \in 1..n : a # b => p[a] # p[b]}]
Orders(n) == OrdersOfLen[n]

\* All rearrangements of the sequence s.
Perms(s) == {[k \in 1..Len(s) |-> s[p[k]]] : p \in Orders(Len(s))}

\* detectEnglishSites has not been called.
EngOff ==
    /\ epc = "off"
    /\ started = 0
    /\ ewg = 0
    /\ ch = <<>>
    /\ closed = FALSE
    /\ wpc = [g \in Sites |-> "idle"]
    /\ cpc = "idle"
    /\ verdict = [g \in Sites |-> FALSE]
    /\ englishSites = <<>>

\* ------------------------------------------------------------ the probes
\* measureMetrics: (latency, ttr, nil) or (0, 0, err).
MeasureMetrics(url, D) ==
    {[URL |-> url, Latency |-> l, TTR |-> t, Error |-> FALSE] : l \in D, t \in D}
    \cup {[URL |-> url, Latency |-> 0, TTR |-> 0, Error |-> TRUE]}

\* measureLatency: (latency, nil) or (0, err).
MeasureLatency(url, D) ==
    {[URL |-> url, Latency |-> l, Error |-> FALSE] : l \in D}
    \cup {[URL |-> url, Latency |-> 0, Error |-> TRUE]}

\* ------------------------------------------------- channel, mutex, group
\* A send on a buffered channel of capacity cap proceeds when the buffer has
\* room; on an unbuffered channel (cap = 0) it needs a receiver, and the
\* semaphore has no receiver but the sender's own deferred release.
\* (Variant: a send that never blocks.)
NoGuardChanCanSend(tokens, cap) == TRUE
ChanCanSend(tokens, cap) == tokens < cap

\* mu.Lock() proceeds when no goroutine holds the mutex.
\* (Variant: an append without the lock.)
NoGuardMutexFree(holder) == TRUE
MutexFree(holder) == holder = 0

\* wg.Wait() returns when the counter is zero.
\* (Variant: a return without the wait.)
NoWaitWaitGroupZero(counter) == TRUE
WaitGroupZero(counter) == counter = 0

\* ---------------------------------------------------------- orchestrator
\* runMetricsTests / runLatencyTests entry: allResults := make([][]T, runs).
RunTests ==
    /\ mpc = "start"
    /\ IF runs < 0
          THEN /\ mpc' = "panic"
               /\ allResults' = <<>>
          ELSE /\ mpc' = "loop"
               /\ allResults' = [k \in 1..runs |-> <<>>]
    /\ i' = 0
    /\ UNCHANGED <<variant, nSites, concurrencyLimit, runs, launched, wg, sem,
                   mu, gpc, out, tmp, results, calls, slept, hist,
                   probed, pipeVars>>

\* Loop head with i < runs: the call of testMetrics / testLatency, up to the
\* creation of the semaphore channel.
TestCall ==
    /\ mpc = "loop"
    /\ i < runs
    /\ calls' = calls + 1
    /\ results' = <<>>
    /\ mu' = 0
    /\ wg' = 0
    /\ sem' = 0
    /\ launched' = 0
    /\ gpc' = [g \in Sites |-> "idle"]
    /\ probed' = [g \in Sites |-> NoSample]
    /\ mpc' = IF concurrencyLimit < 0 THEN "panic" ELSE "launch"
    /\ UNCHANGED <<variant, nSites, concurrencyLimit, runs, i, out, tmp,
                   allResults, slept, hist, pipeVars>>

\* One iteration of "for _, site := range sites": wg.Add(1); go func(site).
Launch ==
    /\ mpc = "launch"
    /\ launched < nSites
    /\ wg' = wg + 1
    /\ launched' = launched + 1
    /\ gpc' = [gpc EXCEPT ![launched + 1] = "acquire"]
    /\ UNCHANGED <<variant, nSites, concurrencyLimit, runs, i, mpc, sem, mu,
                   out, tmp, results, allResults, calls, slept, hist,
                   probed, pipeVars>>

\* sort.Slice(results, less) with less = results[i].Latency <
\* results[j].Latency. sort.Slice is not stable: the result is some
\* rearrangement in which no later element is less than an earlier one.
SortResultsByLatency(batch) ==
    {t \in Perms(batch) :
        \A a, b \in 1..Len(t) : a < b => ~(t[b].Latency < t[a].Latency)}

\* What the orchestrator stores for the batch: runLatencyTests sorts the
\* slice it has just stored (the same backing array) by latency.
StoredBatches(v, batch) ==
    IF v = "latency" THEN SortResultsByLatency(batch) ELSE {batch}

\* runMetricsTests sleeps after every run but the last; runLatencyTests
\* has no pacing delay. (Variant: a delay after the last run too.)
PacingAfterEveryRun(v, k, n) == v = "metrics"
PacingAfter(v, k, n) == v = "metrics" /\ k < n - 1

\* wg.Wait() returns, testMetrics / testLatency returns results, and the
\* orchestrator stores (and logs) the batch.
WaitReturn ==
    /\ mpc = "launch"
    /\ launched = nSites
    /\ WaitGroupZero(wg)
    /\ \E b \in StoredBatches(variant, results) :
          allResults' = [allResults EXCEPT ![i + 1] = b]
    /\ hist' = Append(hist, Range(results))
    /\ IF PacingAfter(variant, i, runs)
          THEN /\ mpc' = "sleep"
               /\ i' = i
          ELSE /\ mpc' = "loop"
               /\ i' = i + 1
    /\ UNCHANGED <<variant, nSites, concurrencyLimit, runs, launched, wg, sem,
                   mu, gpc, out, tmp, results, calls, slept,
                   probed, pipeVars>>

\* time.Sleep(3 * time.Second) elapses; i++.
Sleep ==
    /\ mpc = "sleep"
    /\ slept' = slept + 1
    /\ i' = i + 1
    /\ mpc' = "loop"
    /\ UNCHANGED <<variant, nSites, concurrencyLimit, runs, launched, wg, sem,
                   mu, gpc, out, tmp, results, allResults, calls, hist,
                   probed, pipeVars>>

\* Loop head with i >= runs: return allResults.
Return ==
    /\ mpc = "loop"
    /\ i >= runs
    /\ mpc' = "returned"
    /\ UNCHANGED <<variant, nSites, concurrencyLimit, runs, i, launched, wg,
                   sem, mu, gpc, out, tmp, results, allResults, calls, slept,
                   hist,
                   probed, pipeVars>>

\* --------------------------------------------- the per-endpoint goroutine
\* semaphore <- struct{}{}
Acquire(g) ==
    /\ gpc[g] = "acquire"
    /\ ChanCanSend(sem, concurrencyLimit)
    /\ sem' = sem + 1
    /\ gpc' = [gpc EXCEPT ![g] = "measure"]
    /\ UNCHANGED <<variant, nSites, concurrencyLimit, runs, i, mpc, launched,
                   wg, mu, out, tmp, results, allResults, calls, slept, hist,
                   probed, pipeVars>>

\* testLatency returns early on a probe error; testMetrics never does.
DropsOnError(v) == v = "latency"

Probe(v, url, D) ==
    IF v = "metrics" THEN MeasureMetrics(url, D) ELSE MeasureLatency(url, D)

\* The sample a goroutine appends for a probe outcome.
SampleOf(v, o) ==
    IF v = "metrics" THEN o ELSE [URL |-> o.URL, Latency |-> o.Latency]

\* latency, ttr, err := measureMetrics(url) / measureLatency(url)
Measure(g) ==
    /\ gpc[g] = "measure"
    /\ \E o \in Probe(variant, g, ProbeDurations) :
          /\ probed' = [probed EXCEPT ![g] = o]
          /\ IF o.Error /\ DropsOnError(variant)
                THEN /\ gpc' = [gpc EXCEPT ![g] = "release"]
                     /\ out' = out
                ELSE /\ gpc' = [gpc EXCEPT ![g] = "lock"]
                     /\ out' = [out EXCEPT ![g] = SampleOf(variant, o)]
    /\ UNCHANGED <<variant, nSites, concurrencyLimit, runs, i, mpc, launched,
                   wg, sem, mu, tmp, results, allResults, calls, slept, hist,
                   pipeVars>>

\* mu.Lock()
Lock(g) ==
    /\ gpc[g] = "lock"
    /\ MutexFree(mu)
    /\ mu' = g
    /\ gpc' = [gpc EXCEPT ![g] = "read"]
    /\ UNCHANGED <<variant, nSites, concurrencyLimit, runs, i, mpc, launched,
                   wg, sem, out, tmp, results, allResults, calls, slept, hist,
                   probed, pipeVars>>

\* append(results, x), first half: read the slice header.
AppendRead(g) ==
    /\ gpc[g] = "read"
    /\ tmp' = [tmp EXCEPT ![g] = results]
    /\ gpc' = [gpc EXCEPT ![g] = "write"]
    /\ UNCHANGED <<variant, nSites, concurrencyLimit, runs, i, mpc, launched,
                   wg, sem, mu, out, results, allResults, calls, slept, hist,
                   probed, pipeVars>>

\* results = append(...), second half: store the element and the new header.
AppendWrite(g) ==
    /\ gpc[g] = "write"
    /\ results' = Append(tmp[g], out[g])
    /\ tmp' = [tmp EXCEPT ![g] = <<>>]
    /\ out' = [out EXCEPT ![g] = NoSample]
    /\ gpc' = [gpc EXCEPT ![g] = "unlock"]
    /\ UNCHANGED <<variant, nSites, concurrencyLimit, runs, i, mpc, launched,
                   wg, sem, mu, allResults, calls, slept, hist,
                   probed, pipeVars>>

\* mu.Unlock()
Unlock(g) ==
    /\ gpc[g] = "unlock"
    /\ mu' = 0
    /\ gpc' = [gpc EXCEPT ![g] = "release"]
    /\ UNCHANGED <<variant, nSites, concurrencyLimit, runs, i, mpc, launched,
                   wg, sem, out, tmp, results, allResults, calls, slept, hist,
                   probed, pipeVars>>

\* (Variant: a goroutine that ends without giving its token back.)
ForgetRelease(g) ==
    /\ gpc[g] = "release"
    /\ gpc' = [gpc EXCEPT ![g] = "wgdone"]
    /\ UNCHANGED <<variant, nSites, concurrencyLimit, runs, i, mpc, launched,
                   wg, sem, mu, out, tmp, results, allResults, calls, slept,
                   hist, probed, pipeVars>>

\* deferred: <-semaphore
Release(g) ==
    /\ gpc[g] = "release"
    /\ sem' = sem - 1
    /\ gpc' = [gpc EXCEPT ![g] = "wgdone"]
    /\ UNCHANGED <<variant, nSites, concurrencyLimit, runs, i, mpc, launched,
                   wg, mu, out, tmp, results, allResults, calls, slept, hist,
                   probed, pipeVars>>

\* deferred: wg.Done()
WgDone(g) ==
    /\ gpc[g] = "wgdone"
    /\ wg' = wg - 1
    /\ gpc' = [gpc EXCEPT ![g] = "done"]
    /\ UNCHANGED <<variant, nSites, concurrencyLimit, runs, i, mpc, launched,
                   sem, mu, out, tmp, results, allResults, calls, slept, hist,
                   probed, pipeVars>>

\* ------------------------------------------------------ the scheduler spec
InitFan ==
    /\ variant \in Variants
    /\ nSites \in 1..MaxSites
    /\ concurrencyLimit \in -1..MaxLimit
    /\ runs \in -1..MaxRuns
    /\ nSites * runs <= MaxProbes
    /\ i = 0
    /\ mpc = "start"
    /\ launched = 0
    /\ wg = 0
    /\ sem = 0
    /\ mu = 0
    /\ gpc = [g \in Sites |-> "idle"]
    /\ out = [g \in Sites |-> NoSample]
    /\ tmp = [g \in Sites |-> <<>>]
    /\ results = <<>>
    /\ allResults = <<>>
    /\ calls = 0
    /\ slept = 0
    /\ hist = <<>>
    /\ probed = [g \in Sites |-> NoSample]
    /\ ppc = "off"
    /\ stats = <<>>
    /\ rankedSites = <<>>
    /\ thresholdPercent = 0
    /\ draw = 0
    /\ selectedURL = 0
    /\ EngOff

NextFan ==
    \/ RunTests
    \/ TestCall
    \/ Launch
    \/ WaitReturn
    \/ Sleep
    \/ Return
    \/ \E g \in Sites : Acquire(g)
    \/ \E g \in Sites : Measure(g)
    \/ \E g \in Sites : Lock(g)
    \/ \E g \in Sites : AppendRead(g)
    \/ \E g \in Sites : AppendWrite(g)
    \/ \E g \in Sites : Unlock(g)
    \/ \E g \in Sites : Release(g)
    \/ \E g \in Sites : WgDone(g)

SpecFan == InitFan /\ [][NextFan]_vars

\* ------------------------------------------------------------ aggregator
\* The SiteStats a sample's endpoint gets when the map has none: Min and Max
\* start at the sample's durations, whether or not it carries an error.
NewSiteStats(v, x) ==
    IF v = "metrics"
       THEN [URL |-> x.URL, AvgLatency |-> 0, MinLatency |-> x.Latency,
             MaxLatency |-> x.Latency, AvgTTR |-> 0, MinTTR |-> x.TTR,
             MaxTTR |-> x.TTR, FailureCount |-> 0, SuccessCount |-> 0]
       ELSE [URL |-> x.URL, AvgLatency |-> 0, MinLatency |-> x.Latency,
             MaxLatency |-> x.Latency, FailureCount |-> 0, SuccessCount |-> 0]

\* The failure branch of the two-metric fold: s.FailureCount++.
\* (Variant: a failure sample that is not counted.)
CountFailureNot(s) == s
CountFailure(s) == [s EXCEPT !.FailureCount = @ + 1]

\* The body of the fold for one sample, on its endpoint's record s. The
\* single-metric variant has no failure samples and counts every sample.
FoldSample(v, s, x) ==
    IF v = "metrics"
       THEN IF ~x.Error
               THEN [s EXCEPT !.AvgLatency = @ + x.Latency,
                              !.AvgTTR = @ + x.TTR,
                              !.SuccessCount = @ + 1,
                              !.MinLatency = IF x.Latency < @ THEN x.Latency ELSE @,
                              !.MaxLatency = IF x.Latency > @ THEN x.Latency ELSE @,
                              !.MinTTR = IF x.TTR < @ THEN x.TTR ELSE @,
                              !.MaxTTR = IF x.TTR > @ THEN x.TTR ELSE @]
               ELSE CountFailure(s)
       ELSE [s EXCEPT !.AvgLatency = @ + x.Latency,
                      !.SuccessCount = @ + 1,
                      !.MinLatency = IF x.Latency < @ THEN x.Latency ELSE @,
                      !.MaxLatency = IF x.Latency > @ THEN x.Latency ELSE @]

\* One iteration of the inner loop: create the record if absent, then fold.
Accumulate(v, st, x) ==
    LET st1 == IF x.URL \in DOMAIN st THEN st
               ELSE st @@ (x.URL :> NewSiteStats(v, x))
    IN  [st1 EXCEPT ![x.URL] = FoldSample(v, @, x)]

RECURSIVE AccumulateRun(_, _, _)
\* for _, result := range run
AccumulateRun(v, st, run) ==
    IF run = <<>> THEN st
    ELSE AccumulateRun(v, Accumulate(v, st, Head(run)), Tail(run))

RECURSIVE AccumulateAll(_, _, _)
\* for _, run := range allResults
AccumulateAll(v, st, all) ==
    IF all = <<>> THEN st
    ELSE AccumulateAll(v, AccumulateRun(v, st, Head(all)), Tail(all))

\* Whether the closing loop divides the sums of the record s by its
\* SuccessCount: under "if s.SuccessCount > 0" in the two-metric variant,
\* always in the single-metric variant.
\* (Variant: the two-metric variant without the test.)
ComputesMeanAlways(v, s) == TRUE
ComputesMean(v, s) == v = "latency" \/ s.SuccessCount > 0

\* The closing loop: the sums become means. The two-metric variant divides
\* when SuccessCount > 0; the single-metric variant always divides and sets
\* FailureCount = totalRuns - SuccessCount. Durations are not negative, so
\* Go's truncating division is \div.
\* (Variant: the sums left as they are, never divided.)
FinishNoDivide(v, s, totalRuns) == s
Finish(v, s, totalRuns) ==
    IF v = "metrics"
       THEN IF ComputesMean(v, s)
               THEN [s EXCEPT !.AvgLatency = @ \div s.SuccessCount,
                              !.AvgTTR = @ \div s.SuccessCount]
               ELSE s
       ELSE [s EXCEPT !.AvgLatency = @ \div s.SuccessCount,
                      !.FailureCount = totalRuns - s.SuccessCount]

calculateStats(v, all) ==
    LET acc == AccumulateAll(v, <<>>, all)
    IN  [u \in DOMAIN acc |-> Finish(v, acc[u], Len(all))]

\* ----------------------------------------------------------------- ranker
\* The slice rankSites builds from the map, in any iteration order: one
\* RankedSite per record with SuccessCount > 0, ranks still zero.
RankedSite(s) ==
    [SiteStats |-> s, LatencyRank |-> 0, TTRRank |-> 0, CombinedRank2 |-> 0]

\* The filter of rankSites' first loop.
\* (Variant: every record of the map ranked.)
EligibleAll(st) == DOMAIN st
Eligible(st) == {u \in DOMAIN st : st[u].SuccessCount > 0}

\* All sequences that list the members of the set S once each.
Listings(S) ==
    {q \in [1..Cardinality(S) -> S] :
        \A a, b \in 1..Cardinality(S) : a < b => q[a] # q[b]}

InitialSites(st) ==
    {[k \in 1..Len(q) |-> RankedSite(st[q[k]])] : q \in Listings(Eligible(st))}

\* The less functions of the three sorts.
LessByLatency(a, b) ==
    IF a.SiteStats.AvgLatency = b.SiteStats.AvgLatency
       THEN a.SiteStats.AvgTTR < b.SiteStats.AvgTTR
       ELSE a.SiteStats.AvgLatency < b.SiteStats.AvgLatency

LessByTTR(a, b) ==
    IF a.SiteStats.AvgTTR = b.SiteStats.AvgTTR
       THEN a.SiteStats.AvgLatency < b.SiteStats.AvgLatency
       ELSE a.SiteStats.AvgTTR < b.SiteStats.AvgTTR

LessByCombined(a, b) == a.CombinedRank2 < b.CombinedRank2

\* sort.Slice with each less function. It is not stable: the result is some
\* rearrangement in which no later element is less than an earlier one.
SortedByLatency(t) ==
    \A a, b \in 1..Len(t) : a < b => ~LessByLatency(t[b], t[a])

SortByTTR(sites) ==
    {t \in Perms(sites) :
        \A a, b \in 1..Len(t) : a < b => ~LessByTTR(t[b], t[a])}

\* (Variant: the slice left in the order of the TTR sort.)
UnsortedByCombined(sites) == {sites}
SortByCombined(sites) ==
    {t \in Perms(sites) :
        \A a, b \in 1..Len(t) : a < b => ~LessByCombined(t[b], t[a])}

RECURSIVE RankAt(_, _)
\* The value of latencyRank / ttrRank after iteration k (1-based) of the
\* rank loop over the sorted keys: it becomes the position when the key
\* differs from the previous one and is kept otherwise.
RankAt(keys, k) ==
    IF k = 1 THEN 1
    ELSE IF keys[k] # keys[k - 1] THEN k
    ELSE RankAt(keys, k - 1)

\* (Variant: dense ranking, the next distinct key gets the next rank.)
DenseRanks(keys) ==
    [k \in 1..Len(keys) |-> Cardinality({keys[j] : j \in 1..k})]
PositionRanks(keys) == [k \in 1..Len(keys) |-> RankAt(keys, k)]

WithLatencyRank(sites) ==
    LET r == PositionRanks([k \in 1..Len(sites) |-> sites[k].SiteStats.AvgLatency])
    IN  [k \in 1..Len(sites) |-> [sites[k] EXCEPT !.LatencyRank = r[k]]]

WithTTRRank(sites) ==
    LET r == PositionRanks([k \in 1..Len(sites) |-> sites[k].SiteStats.AvgTTR])
    IN  [k \in 1..Len(sites) |-> [sites[k] EXCEPT !.TTRRank = r[k]]]

\* CombinedRank = float64(LatencyRank + TTRRank) / 2.0: a multiple of 0.5,
\* exact in float64; the model holds twice its value.
CombinedRank2Of(r) == r.LatencyRank + r.TTRRank

WithCombinedRank(sites) ==
    [k \in 1..Len(sites) |-> [sites[k] EXCEPT !.CombinedRank2 = CombinedRank2Of(sites[k])]]

\* The possible results of rankSites(stats): the slice after each of the
\* three sorts. The first sort rearranges the slice built in map iteration
\* order, whichever that is, into one of the listings sorted by latency.
rankSites(st) ==
    LET byLatency == {t \in InitialSites(st) : SortedByLatency(t)}
        byTTR == UNION {SortByTTR(WithLatencyRank(a)) : a \in byLatency}
    IN  UNION {SortByCombined(WithCombinedRank(WithTTRRank(b))) : b \in byTTR}

\* main of the single-metric variant: the records of the map in any order,
\* sorted by AvgLatency.
SortedStats(st) ==
    {t \in {[k \in 1..Len(q) |-> st[q[k]]] : q \in Listings(DOMAIN st)} :
        \A a, b \in 1..Len(t) : a < b => ~(t[b].AvgLatency < t[a].AvgLatency)}

\* --------------------------------------------------------------- selector
\* rand.Float64() < 0.9, with the draw in tenths.
HedgeTenths == 9
RandTenths == {0, 8, 9}
\* main passes 2.0.
Thresholds == {0, 2, 50}

\* The URL of an element of the list given to selectFlashscoreURL.
URLOf(v, e) == IF v = "metrics" THEN e.SiteStats.URL ELSE e.URL

\* The quantity the gap is taken of: CombinedRank (here doubled, which the
\* quotient cancels) in the two-metric variant, AvgLatency in the other.
KeyOf(v, e) == IF v = "metrics" THEN e.CombinedRank2 ELSE e.AvgLatency

\* percentageDiff <= thresholdPercent, percentageDiff = (gap / first) * 100
\* in float64. A zero divisor gives +Inf or NaN, for which <= is false.
\* (Variant: the comparison with < in place of <=.)
PercentBelow(gap, first, threshold) ==
    first # 0 /\ gap * 100 < threshold * first
\* (Variant: the hedge taken whatever the gap.)
PercentAlways(gap, first, threshold) == TRUE
PercentAtMost(gap, first, threshold) ==
    first # 0 /\ gap * 100 <= threshold * first

\* selectFlashscoreURL(list, threshold) with random draw d: the URL returned,
\* or the panic (index out of range) of list[0] on an empty list.
\* (Variant: no hedge, the first entry whatever the gap and the draw.)
selectFirst(v, list, threshold, d) ==
    IF Len(list) = 0 THEN [panic |-> TRUE, url |-> 0]
    ELSE [panic |-> FALSE, url |-> URLOf(v, list[1])]
selectFlashscoreURL(v, list, threshold, d) ==
    IF Len(list) < 2
       THEN IF Len(list) = 0 THEN [panic |-> TRUE, url |-> 0]
            ELSE [panic |-> FALSE, url |-> URLOf(v, list[1])]
       ELSE LET first == list[1]
                second == list[2]
                gap == KeyOf(v, second) - KeyOf(v, first)
            IN  IF PercentAtMost(gap, KeyOf(v, first), threshold)
                   THEN IF d < HedgeTenths
                           THEN [panic |-> FALSE, url |-> URLOf(v, first)]
                           ELSE [panic |-> FALSE, url |-> URLOf(v, second)]
                   ELSE [panic |-> FALSE, url |-> URLOf(v, first)]

\* ------------------------------------------------- the pipeline's steps
\* stats := calculateStats(allResults)
CalculateStats ==
    /\ ppc = "calc"
    /\ stats' = calculateStats(variant, allResults)
    /\ ppc' = "rank"
    /\ UNCHANGED <<fanVars, engVars, rankedSites, thresholdPercent, draw, selectedURL>>

\* rankedSites := rankSites(stats), or the sorted stats of "latency".
RankSites ==
    /\ ppc = "rank"
    /\ rankedSites' \in IF variant = "metrics" THEN rankSites(stats)
                        ELSE SortedStats(stats)
    /\ ppc' = "select"
    /\ UNCHANGED <<fanVars, engVars, stats, thresholdPercent, draw, selectedURL>>

\* selectedURL := selectFlashscoreURL(rankedSites, thresholdPercent)
Select ==
    /\ ppc = "select"
    /\ \E t \in Thresholds, d \in RandTenths :
          /\ thresholdPercent' = t
          /\ draw' = d
          /\ LET r == selectFlashscoreURL(variant, rankedSites, t, d)
             IN  /\ selectedURL' = r.url
                 /\ ppc' = IF r.panic THEN "panic" ELSE "done"
    /\ UNCHANGED <<fanVars, engVars, stats, rankedSites>>

\* ------------------------------------------------------ the pipeline spec
Durations == 1..MaxDur

RECURSIVE Outcomes(_, _)
\* What the probes of one run over the endpoints 1..n can return, by endpoint.
Outcomes(v, n) ==
    IF n = 0 THEN {<<>>}
    ELSE {Append(c, o) : c \in Outcomes(v, n - 1), o \in Probe(v, n, Durations)}

RECURSIVE Successes(_)
Successes(c) ==
    IF c = <<>> THEN <<>>
    ELSE IF Head(c).Error THEN Successes(Tail(c))
    ELSE <<SampleOf("latency", Head(c))>> \o Successes(Tail(c))

\* The batches the orchestrator can hold for n endpoints: one sample per
\* endpoint (two metrics; listed here in the order of the endpoints, one of
\* the completion orders), or the successful samples sorted by latency
\* (single metric).
Batches(v, n) ==
    IF v = "metrics"
       THEN Outcomes(v, n)
       ELSE UNION {SortResultsByLatency(Successes(c)) : c \in Outcomes(v, n)}

\* The state in which runMetricsTests / runLatencyTests has returned.
InitPipe ==
    /\ variant \in Variants
    /\ nSites \in 1..MaxSites
    /\ runs \in 0..MaxRuns
    /\ nSites * runs * MaxDur <= MaxSampleLoad
    /\ concurrencyLimit = nSites
    /\ allResults \in [1..runs -> Batches(variant, nSites)]
    /\ i = runs
    /\ mpc = "returned"
    /\ launched = IF runs > 0 THEN nSites ELSE 0
    /\ wg = 0
    /\ sem = 0
    /\ mu = 0
    /\ gpc = [g \in Sites |-> IF runs > 0 THEN "done" ELSE "idle"]
    /\ out = [g \in Sites |-> NoSample]
    /\ tmp = [g \in Sites |-> <<>>]
    /\ results = <<>>
    /\ calls = runs
    /\ slept = IF variant = "metrics" /\ runs >= 1 THEN runs - 1 ELSE 0
    /\ hist = [k \in 1..runs |-> Range(allResults[k])]
    /\ probed = [g \in Sites |-> NoSample]
    /\ ppc = "calc"
    /\ stats = <<>>
    /\ rankedSites = <<>>
    /\ thresholdPercent = 0
    /\ draw = 0
    /\ selectedURL = 0
    /\ EngOff

NextPipe ==
    \/ CalculateStats
    \/ RankSites
    \/ Select

SpecPipe == InitPipe /\ [][NextPipe]_vars

\* ------------------------------------------------------------ the driver
\* main, after calculateStats and rankSites (or the sort of the stats by
\* AvgLatency): the report, the overall statistics and the selection.

\* The report of the two-metric main sorts rankedSites again, by LatencyRank,
\* by TTRRank and last by CombinedRank, each with sort.Slice.
SortByLatencyRank(sites) ==
    {t \in Perms(sites) :
        \A a, b \in 1..Len(t) : a < b => ~(t[b].LatencyRank < t[a].LatencyRank)}

SortByTTRRank(sites) ==
    {t \in Perms(sites) :
        \A a, b \in 1..Len(t) : a < b => ~(t[b].TTRRank < t[a].TTRRank)}

Displayed(v, list) ==
    IF v = "metrics"
       THEN UNION {SortByCombined(b) :
                     b \in UNION {SortByTTRRank(a) : a \in SortByLatencyRank(list)}}
       ELSE {list}

\* Where main goes from the overall statistics. The two-metric main computes
\* them and selects when len(rankedSites) > 0 (its averageGap is a float64
\* quotient, NaN or Inf for one entry, no panic) and otherwise reports that no
\* successful measurements were made. The single-metric main has no such
\* test: sortedStats[0] panics on an empty list, and totalGap /
\* time.Duration(len(sortedStats)-1) is an integer division, which panics
\* for one entry.
OverallStatistics(v, list) ==
    IF v = "metrics"
       THEN IF Len(list) > 0 THEN "call" ELSE "reported"
       ELSE IF Len(list) = 0 THEN "panic"
            ELSE IF Len(list) - 1 = 0 THEN "panic"
            ELSE "call"

\* The report loops of main.
Display ==
    /\ ppc = "select"
    /\ rankedSites' \in Displayed(variant, rankedSites)
    /\ ppc' = "overall"
    /\ UNCHANGED <<fanVars, engVars, stats, thresholdPercent, draw, selectedURL>>

\* The overall statistics of main.
Overall ==
    /\ ppc = "overall"
    /\ ppc' = OverallStatistics(variant, rankedSites)
    /\ UNCHANGED <<fanVars, engVars, stats, rankedSites, thresholdPercent, draw,
                   selectedURL>>

\* main passes 2.0 as thresholdPercent.
MainThreshold == 2

\* selectedURL := selectFlashscoreURL(rankedSites, thresholdPercent) in main.
MainSelect ==
    /\ ppc = "call"
    /\ thresholdPercent' = MainThreshold
    /\ \E d \in RandTenths :
          /\ draw' = d
          /\ LET r == selectFlashscoreURL(variant, rankedSites, MainThreshold, d)
             IN  /\ selectedURL' = r.url
                 /\ ppc' = IF r.panic THEN "panic" ELSE "done"
    /\ UNCHANGED <<fanVars, engVars, stats, rankedSites>>

NextMain ==
    \/ CalculateStats
    \/ RankSites
    \/ Display
    \/ Overall
    \/ MainSelect

\* main from the return of runMetricsTests / runLatencyTests on.
SpecMain == InitPipe /\ [][NextMain]_vars

\* ---------------------------------------------------- detectEnglishSites
\* The frame of detectEnglishSites: the state of the speed checker.
speedVars == <<fanVars, ppc, stats, rankedSites, thresholdPercent, draw,
               selectedURL>>

\* results := make(chan string, len(sites))
MakeResults ==
    /\ epc = "start"
    /\ ch' = <<>>
    /\ closed' = FALSE
    /\ epc' = "launch"
    /\ UNCHANGED <<speedVars, started, ewg, wpc, cpc, verdict, englishSites>>

\* One iteration of "for _, site := range sites": wg.Add(1); go func(site).
StartWorker ==
    /\ epc = "launch"
    /\ started < nSites
    /\ ewg' = ewg + 1
    /\ started' = started + 1
    /\ wpc' = [wpc EXCEPT ![started + 1] = "check"]
    /\ UNCHANGED <<speedVars, epc, ch, closed, cpc, verdict, englishSites>>

\* After the loop: go func() { wg.Wait(); close(results) }().
StartCloser ==
    /\ epc = "launch"
    /\ started = nSites
    /\ cpc' = "wait"
    /\ epc' = "range"
    /\ UNCHANGED <<speedVars, started, ewg, ch, closed, wpc, verdict,
                   englishSites>>

\* if isEnglish(url): the call returns true or false.
IsEnglish(g) ==
    /\ wpc[g] = "check"
    /\ \E b \in BOOLEAN :
          /\ verdict' = [verdict EXCEPT ![g] = b]
          /\ wpc' = [wpc EXCEPT ![g] = IF b THEN "send" ELSE "wgdone"]
    /\ UNCHANGED <<speedVars, epc, started, ewg, ch, closed, cpc, englishSites>>

\* results <- url: a send on a closed channel panics; otherwise it proceeds
\* when the buffer has room.
Send(g) ==
    /\ wpc[g] = "send"
    /\ IF closed
          THEN /\ wpc' = [wpc EXCEPT ![g] = "panic"]
               /\ epc' = "panic"
               /\ ch' = ch
          ELSE /\ ChanCanSend(Len(ch), nSites)
               /\ ch' = Append(ch, g)
               /\ wpc' = [wpc EXCEPT ![g] = "wgdone"]
               /\ epc' = epc
    /\ UNCHANGED <<speedVars, started, ewg, closed, cpc, verdict, englishSites>>

\* deferred: wg.Done()
WorkerDone(g) ==
    /\ wpc[g] = "wgdone"
    /\ ewg' = ewg - 1
    /\ wpc' = [wpc EXCEPT ![g] = "done"]
    /\ UNCHANGED <<speedVars, epc, started, ch, closed, cpc, verdict,
                   englishSites>>

\* A closing goroutine that does not wait for the workers.
CloseAtOnce ==
    /\ cpc = "wait"
    /\ closed' = TRUE
    /\ cpc' = "done"
    /\ UNCHANGED <<speedVars, epc, started, ewg, ch, wpc, verdict, englishSites>>

\* The closing goroutine: wg.Wait() returns, close(results).
CloseResults ==
    /\ cpc = "wait"
    /\ WaitGroupZero(ewg)
    /\ closed' = TRUE
    /\ cpc' = "done"
    /\ UNCHANGED <<speedVars, epc, started, ewg, ch, wpc, verdict, englishSites>>

\* One iteration of "for site := range results": receive a value and append
\* it to englishSites.
Collect ==
    /\ epc = "range"
    /\ ch # <<>>
    /\ englishSites' = Append(englishSites, Head(ch))
    /\ ch' = Tail(ch)
    /\ UNCHANGED <<speedVars, epc, started, ewg, closed, wpc, cpc, verdict>>

\* The range loop ends on the closed and drained channel: return englishSites.
ReturnEnglish ==
    /\ epc = "range"
    /\ ch = <<>>
    /\ closed
    /\ epc' = "returned"
    /\ UNCHANGED <<speedVars, started, ewg, ch, closed, wpc, cpc, verdict,
                   englishSites>>

\* The call detectEnglishSites(sites) with sites = <<1, ..., nSites>>.
InitEnglish ==
    /\ variant = "latency"
    /\ nSites \in 0..MaxSites
    /\ concurrencyLimit = 0
    /\ runs = 0
    /\ i = 0
    /\ mpc = "off"
    /\ launched = 0
    /\ wg = 0
    /\ sem = 0
    /\ mu = 0
    /\ gpc = [g \in Sites |-> "idle"]
    /\ out = [g \in Sites |-> NoSample]
    /\ tmp = [g \in Sites |-> <<>>]
    /\ results = <<>>
    /\ allResults = <<>>
    /\ calls = 0
    /\ slept = 0
    /\ hist = <<>>
    /\ probed = [g \in Sites |-> NoSample]
    /\ ppc = "off"
    /\ stats = <<>>
    /\ rankedSites = <<>>
    /\ thresholdPercent = 0
    /\ draw = 0
    /\ selectedURL = 0
    /\ epc = "start"
    /\ started = 0
    /\ ewg = 0
    /\ ch = <<>>
    /\ closed = FALSE
    /\ wpc = [g \in Sites |-> "idle"]
    /\ cpc = "idle"
    /\ verdict = [g \in Sites |-> FALSE]
    /\ englishSites = <<>>

NextEnglish ==
    \/ MakeResults
    \/ StartWorker
    \/ StartCloser
    \/ CloseResults
    \/ Collect
    \/ ReturnEnglish
    \/ \E g \in Sites : IsEnglish(g)
    \/ \E g \in Sites : Send(g)
    \/ \E g \in Sites : WorkerDone(g)

\* Every goroutine that can take a step takes it (the Go scheduler), and
\* every call of isEnglish returns (its http.Client has a 10 s timeout).
SpecEnglish == InitEnglish /\ [][NextEnglish]_vars /\ WF_vars(NextEnglish)

\* ------------------------------------------------- claims: the scheduler
\* A goroutine between its semaphore send and its deferred receive.
Active(g) == gpc[g] \in {"measure", "lock", "read", "write", "unlock", "release"}
NumActive == Cardinality({g \in Sites : Active(g)})
Running(g) == gpc[g] \notin {"idle", "done"}
CallReturned == calls >= 1 /\ mpc \in {"loop", "sleep", "returned"}

\* C1: for every concurrencyLimit >= 1 the number of goroutines between
\* acquiring and releasing a semaphore token never exceeds concurrencyLimit
\* (so with concurrencyLimit = 1 at most one probe is ever active).
C1_BoundedConcurrency ==
    concurrencyLimit >= 1 => NumActive <= concurrencyLimit

\* C1 witness: the limit is reached while another goroutine waits for a token.
C1_Witness ==
    /\ concurrencyLimit >= 1
    /\ NumActive = concurrencyLimit
    /\ \E g \in Sites : gpc[g] = "acquire"
    /\ \E g \in Sites : gpc[g] = "measure"

\* C2: testMetrics / testLatency has returned only when every launched
\* goroutine has finished: none waits for a token, probes or appends.
C2_JoinBarrier ==
    CallReturned => \A g \in Sites : gpc[g] = "done" /\ launched = nSites

\* C2 witness: a call over several endpoints has returned.
C2_Witness ==
    /\ CallReturned
    /\ nSites >= 2
    /\ concurrencyLimit = 1

\* C3: the batch testMetrics returns holds exactly one sample per endpoint,
\* the one its probe produced; a probe error is a sample with Error set and
\* removes no other endpoint's sample.
C3_OneSamplePerEndpoint ==
    (variant = "metrics" /\ CallReturned) =>
        LET b == allResults[calls] IN
        /\ Len(b) = nSites
        /\ \A g \in Sites :
              /\ Cardinality({k \in 1..Len(b) : b[k].URL = g}) = 1
              /\ \E k \in 1..Len(b) : b[k] = probed[g]

\* C3 witness: a returned batch with a failed and a successful probe.
C3_Witness ==
    /\ variant = "metrics"
    /\ CallReturned
    /\ \E k \in 1..Len(allResults[calls]) : allResults[calls][k].Error
    /\ \E k \in 1..Len(allResults[calls]) : ~allResults[calls][k].Error
    /\ nSites = MaxSites

\* C4: the orchestrator calls the scheduler exactly runs times, one call after
\* the other: while a goroutine of a call runs, every earlier call has
\* returned and (runMetricsTests) every earlier pacing delay has elapsed;
\* the delay follows every run but the last; the result has runs batches,
\* the k-th being the batch of the k-th call.
C4_SequentialRuns ==
    /\ (\E g \in Sites : Running(g)) =>
          /\ mpc = "launch"
          /\ calls = i + 1
          /\ Len(hist) = i
          /\ slept = IF variant = "metrics" THEN i ELSE 0
    /\ mpc = "returned" =>
          /\ calls = runs
          /\ Len(allResults) = runs
          /\ Len(hist) = runs
          /\ \A k \in 1..runs : Range(allResults[k]) = hist[k]
          /\ slept = IF variant = "metrics" /\ runs >= 1 THEN runs - 1 ELSE 0

\* C4 witness: runMetricsTests has returned after two runs and one delay.
C4_Witness ==
    /\ mpc = "returned"
    /\ variant = "metrics"
    /\ runs = MaxRuns
    /\ slept = runs - 1
    /\ nSites >= 2

\* -------------------------------------------------- claims: the pipeline
Selected == ppc \in {"done", "panic"}
Aggregated == ppc \in {"rank", "select", "done", "panic"}
Ranked == ppc \in {"select", "done", "panic"}

\* C5: on a list of two or more, with gapPercent = (combinedRank[1] -
\* combinedRank[0]) / combinedRank[0] * 100 (the single-metric variant has no
\* ranks and takes the same quotient of the mean latencies): the result is
\* the top endpoint if gapPercent > thresholdPercent, and otherwise the top
\* endpoint when the draw is below 0.9 and the runner-up when it is not; it
\* is always one of the first two.
C5_SelectRule ==
    (Selected /\ Len(rankedSites) >= 2) =>
        LET top == URLOf(variant, rankedSites[1])
            runnerUp == URLOf(variant, rankedSites[2])
            k0 == IF variant = "metrics" THEN rankedSites[1].CombinedRank2
                  ELSE rankedSites[1].AvgLatency
            k1 == IF variant = "metrics" THEN rankedSites[2].CombinedRank2
                  ELSE rankedSites[2].AvgLatency
            gapExceeds == (k1 - k0) * 100 > thresholdPercent * k0
        IN  /\ ppc = "done"
            /\ selectedURL \in {top, runnerUp}
            /\ gapExceeds => selectedURL = top
            /\ (~gapExceeds /\ draw < 9) => selectedURL = top
            /\ (~gapExceeds /\ draw >= 9) => selectedURL = runnerUp

\* C5 witness: ranked endpoints within the threshold, and the draw picks the
\* runner-up.
C5_Witness ==
    /\ ppc = "done"
    /\ variant = "metrics"
    /\ Len(rankedSites) >= 2
    /\ rankedSites[2].CombinedRank2 > rankedSites[1].CombinedRank2
    /\ selectedURL = rankedSites[2].SiteStats.URL
    /\ selectedURL # rankedSites[1].SiteStats.URL

\* C6: select returns the sole endpoint of a one-entry list and, on an empty
\* list, ends with an explicit outcome instead of crashing.
C6_SoleOrNoCandidates ==
    (Selected /\ Len(rankedSites) < 2) =>
        /\ ppc = "done"
        /\ Len(rankedSites) = 1 => selectedURL = URLOf(variant, rankedSites[1])

\* The places <<run, index>> of the successful samples of endpoint u.
SuccessPlaces(u) ==
    {rk \in UNION {{<<r, k>> : k \in 1..Len(allResults[r])} : r \in 1..Len(allResults)} :
        /\ allResults[rk[1]][rk[2]].URL = u
        /\ (variant = "metrics" => ~allResults[rk[1]][rk[2]].Error)}

LatencyAt(rk) == allResults[rk[1]][rk[2]].Latency
TTRAt(rk) == allResults[rk[1]][rk[2]].TTR

RECURSIVE SumLatency(_)
SumLatency(P) ==
    IF P = {} THEN 0
    ELSE LET rk == CHOOSE x \in P : TRUE IN LatencyAt(rk) + SumLatency(P \ {rk})

RECURSIVE SumTTR(_)
SumTTR(P) ==
    IF P = {} THEN 0
    ELSE LET rk == CHOOSE x \in P : TRUE IN TTRAt(rk) + SumTTR(P \ {rk})

\* C7: for every endpoint with SuccessCount > 0 and each metric, the average
\* is the sum of the endpoint's successful samples divided by SuccessCount
\* and the minimum and maximum are the smallest and largest value among its
\* successful samples only.
C7_StatsOverSuccesses ==
    Aggregated =>
        \A u \in DOMAIN stats :
            stats[u].SuccessCount > 0 =>
                LET P == SuccessPlaces(u) IN
                /\ stats[u].AvgLatency = SumLatency(P) \div stats[u].SuccessCount
                /\ \E rk \in P : stats[u].MinLatency = LatencyAt(rk)
                /\ \A rk \in P : stats[u].MinLatency <= LatencyAt(rk)
                /\ \E rk \in P : stats[u].MaxLatency = LatencyAt(rk)
                /\ \A rk \in P : stats[u].MaxLatency >= LatencyAt(rk)
                /\ variant = "metrics" =>
                      /\ stats[u].AvgTTR = SumTTR(P) \div stats[u].SuccessCount
                      /\ \E rk \in P : stats[u].MinTTR = TTRAt(rk)
                      /\ \A rk \in P : stats[u].MinTTR <= TTRAt(rk)
                      /\ \E rk \in P : stats[u].MaxTTR = TTRAt(rk)
                      /\ \A rk \in P : stats[u].MaxTTR >= TTRAt(rk)

\* C8: for every endpoint in the output of calculateStats, SuccessCount +
\* FailureCount is the number of runs, len(allResults).
C8_CountsSumToRuns ==
    Aggregated =>
        \A u \in DOMAIN stats :
            stats[u].SuccessCount + stats[u].FailureCount = Len(allResults)

\* C8 witness: an endpoint of the two-metric variant with a success and a
\* failure, and one of the single-metric variant missing from a batch.
C8_Witness ==
    /\ Aggregated
    /\ runs = MaxRuns
    /\ \E u \in DOMAIN stats : stats[u].SuccessCount >= 1 /\ stats[u].FailureCount >= 1
    /\ variant = "metrics"

\* C9: each per-metric rank is 1 + the number of ranked endpoints with a
\* strictly smaller mean; so equal means get equal ranks, and distinct means
\* get the ranks 1..N.
C9_CompetitionRanks ==
    (Ranked /\ variant = "metrics") =>
        LET N == Len(rankedSites)
            lat(k) == rankedSites[k].SiteStats.AvgLatency
            ttr(k) == rankedSites[k].SiteStats.AvgTTR
        IN  /\ \A k \in 1..N :
                  /\ rankedSites[k].LatencyRank =
                        1 + Cardinality({j \in 1..N : lat(j) < lat(k)})
                  /\ rankedSites[k].TTRRank =
                        1 + Cardinality({j \in 1..N : ttr(j) < ttr(k)})
            /\ \A j, k \in 1..N :
                  /\ lat(j) = lat(k) => rankedSites[j].LatencyRank = rankedSites[k].LatencyRank
                  /\ ttr(j) = ttr(k) => rankedSites[j].TTRRank = rankedSites[k].TTRRank
            /\ (\A j, k \in 1..N : j # k => lat(j) # lat(k)) =>
                  {rankedSites[k].LatencyRank : k \in 1..N} = 1..N
            /\ (\A j, k \in 1..N : j # k => ttr(j) # ttr(k)) =>
                  {rankedSites[k].TTRRank : k \in 1..N} = 1..N

\* C9 witness: two endpoints tie on the latency mean below a third, which
\* gets rank 3.
C9_Witness ==
    /\ Ranked
    /\ variant = "metrics"
    /\ Len(rankedSites) = 3
    /\ \E j, k, l \in 1..3 :
          /\ j # k
          /\ rankedSites[j].LatencyRank = 1
          /\ rankedSites[k].LatencyRank = 1
          /\ rankedSites[l].LatencyRank = 3

\* C10: every entry of rankSites' output has CombinedRank = (LatencyRank +
\* TTRRank) / 2, and the output is in non-decreasing order of CombinedRank.
C10_CombinedRankOrder ==
    (Ranked /\ variant = "metrics") =>
        /\ \A k \in 1..Len(rankedSites) :
              rankedSites[k].CombinedRank2 =
                  rankedSites[k].LatencyRank + rankedSites[k].TTRRank
        /\ \A a, b \in 1..Len(rankedSites) :
              a < b => rankedSites[a].CombinedRank2 <= rankedSites[b].CombinedRank2

\* C10 witness: three ranked endpoints with three different combined ranks.
C10_Witness ==
    /\ Ranked
    /\ variant = "metrics"
    /\ Len(rankedSites) = 3
    /\ rankedSites[1].CombinedRank2 < rankedSites[2].CombinedRank2
    /\ rankedSites[2].CombinedRank2 < rankedSites[3].CombinedRank2

\* ------------------------------------- claims: configuration and liveness
\* Every goroutine of the call waits for a semaphore token that no one can
\* give, and the caller waits for them in wg.Wait().
Hung ==
    /\ mpc = "launch"
    /\ launched = nSites
    /\ \A g \in Sites : gpc[g] = "acquire"
    /\ ~ChanCanSend(sem, concurrencyLimit)

\* C11: a call of the scheduler with concurrencyLimit <= 0 neither crashes
\* nor hangs with all its goroutines blocked on the semaphore, and no probe
\* starts.
C11_NonPositiveLimitRejected ==
    (calls >= 1 /\ concurrencyLimit <= 0) =>
        /\ mpc # "panic"
        /\ ~Hung
        /\ \A g \in Sites : probed[g] = NoSample

\* C12: with runs <= 0 the orchestrator neither crashes nor returns an empty
\* result as if it had succeeded.
C12_NonPositiveRunsRejected ==
    runs <= 0 => mpc \notin {"panic", "returned"}

\* What is sure to happen. The Go scheduler runs every goroutine that can
\* take a step. A probe of measureMetrics ends within its 45 s context
\* timeout; a probe of measureLatency is http.Get on the default client, which
\* has no timeout, so nothing makes it end when the endpoint never answers.
TimedMeasure(g) == variant = "metrics" /\ Measure(g)

SureSteps ==
    \/ RunTests
    \/ TestCall
    \/ Launch
    \/ WaitReturn
    \/ Sleep
    \/ Return
    \/ \E g \in Sites : Acquire(g)
    \/ \E g \in Sites : TimedMeasure(g)
    \/ \E g \in Sites : Lock(g)
    \/ \E g \in Sites : AppendRead(g)
    \/ \E g \in Sites : AppendWrite(g)
    \/ \E g \in Sites : Unlock(g)
    \/ \E g \in Sites : Release(g)
    \/ \E g \in Sites : WgDone(g)

\* The scheduler and orchestrator under that fairness. No behaviour of
\* NextFan returns to a state it has left, so a behaviour satisfies this
\* condition exactly when it ends in a state where no sure step is enabled.
SpecLive == InitFan /\ [][NextFan]_vars /\ WF_vars(SureSteps)

\* C13: for concurrencyLimit >= 1 every call of the scheduler eventually
\* returns and every goroutine waiting for a token eventually gets one and
\* probes, even if an endpoint never responds.
C13_NoStall ==
    /\ (concurrencyLimit >= 1 /\ mpc = "launch") ~> (mpc # "launch")
    /\ \A g \in 1..MaxSites :
          (concurrencyLimit >= 1 /\ g <= nSites /\ gpc[g] = "acquire")
              ~> (g <= nSites /\ gpc[g] # "acquire")

\* ----------------------------------------- claims: the pipeline, continued
\* C14: rankSites has one possible result for a stats mapping, whatever the
\* map iteration order and whatever sort.Slice does with elements that
\* compare equal.
C14_RankerDeterministic ==
    (Ranked /\ variant = "metrics") =>
        \A r \in rankSites(stats) : r = rankedSites

\* C15: for every endpoint with SuccessCount > 0 and every metric,
\* Min <= Avg <= Max.
C15_MinAvgMax ==
    Aggregated =>
        \A u \in DOMAIN stats :
            stats[u].SuccessCount > 0 =>
                /\ stats[u].MinLatency <= stats[u].AvgLatency
                /\ stats[u].AvgLatency <= stats[u].MaxLatency
                /\ variant = "metrics" =>
                      /\ stats[u].MinTTR <= stats[u].AvgTTR
                      /\ stats[u].AvgTTR <= stats[u].MaxTTR

\* C15 witness: an endpoint whose first sample is a failure and whose later
\* sample is a success, so that its Min (0) is below its Avg; another endpoint
\* with two different successes.
C15_Witness ==
    /\ Aggregated
    /\ variant = "metrics"
    /\ \E u \in DOMAIN stats :
          /\ allResults[1][u].Error
          /\ stats[u].SuccessCount > 0
          /\ stats[u].MinLatency < stats[u].AvgLatency
    /\ \E u \in DOMAIN stats :
          /\ stats[u].SuccessCount = 2
          /\ stats[u].MinLatency < stats[u].MaxLatency

\* C16: when no endpoint is eligible for ranking after at least one run,
\* main ends by reporting that no successful measurements were made; it
\* does not crash.
C16_NoMeasurementsReported ==
    (runs >= 1 /\ Len(rankedSites) = 0 /\ ppc \in {"call", "done", "reported", "panic"})
        => ppc = "reported"

\* C17: the output of rankSites lists exactly the endpoints of the stats
\* mapping with SuccessCount > 0, each once, with its record and with ranks
\* from 1 on; an endpoint without a success gets no rank and no entry.
C17_RankedAreTheSuccessful ==
    (Ranked /\ variant = "metrics") =>
        LET N == Len(rankedSites) IN
        /\ {rankedSites[k].SiteStats.URL : k \in 1..N} =
              {u \in DOMAIN stats : stats[u].SuccessCount > 0}
        /\ \A j, k \in 1..N :
              j # k => rankedSites[j].SiteStats.URL # rankedSites[k].SiteStats.URL
        /\ \A k \in 1..N :
              /\ rankedSites[k].SiteStats = stats[rankedSites[k].SiteStats.URL]
              /\ rankedSites[k].LatencyRank >= 1
              /\ rankedSites[k].TTRRank >= 1

\* C17 witness: of three endpoints one never succeeds and two are ranked.
C17_Witness ==
    /\ Ranked
    /\ variant = "metrics"
    /\ Len(rankedSites) = 2
    /\ \E u \in DOMAIN stats : stats[u].SuccessCount = 0 /\ stats[u].FailureCount >= 1

\* The sums and counts of calculateStats before its closing loop.
Sums == AccumulateAll(variant, <<>>, allResults)

\* C18: the closing loop of calculateStats divides by SuccessCount only when
\* it is positive (every record of the single-metric variant has a success),
\* and the averages of a record with SuccessCount = 0 stay zero.
C18_NoDivisionByZero ==
    /\ \A u \in DOMAIN Sums :
          /\ ComputesMean(variant, Sums[u]) => Sums[u].SuccessCount > 0
          /\ variant = "latency" => Sums[u].SuccessCount >= 1
    /\ Aggregated =>
          \A u \in DOMAIN stats :
              stats[u].SuccessCount = 0 =>
                  /\ stats[u].AvgLatency = 0
                  /\ stats[u].AvgTTR = 0

\* C18 witness: one endpoint fails in both runs, another succeeds in both.
C18_Witness ==
    /\ Aggregated
    /\ variant = "metrics"
    /\ \E u \in DOMAIN stats : stats[u].SuccessCount = 0 /\ stats[u].FailureCount = 2
    /\ \E u \in DOMAIN stats : stats[u].SuccessCount = 2 /\ stats[u].AvgLatency > 0

\* The URLs of the list given to the selector, in its order.
RankedURLs == [k \in 1..Len(rankedSites) |-> URLOf(variant, rankedSites[k])]

\* Scenario A: of three endpoints, X = 1 and Y = 2 succeed in every run and
\* Z = 3 fails in every run; the mean of X is below the mean of Y on every
\* tracked metric, by more than 2% of X's mean.
ScenarioA ==
    /\ nSites = 3
    /\ runs >= 1
    /\ Aggregated
    /\ SuccessPlaces(3) = {}
    /\ Cardinality(SuccessPlaces(1)) = runs
    /\ Cardinality(SuccessPlaces(2)) = runs
    /\ (stats[2].AvgLatency - stats[1].AvgLatency) * 100 > 2 * stats[1].AvgLatency
    /\ variant = "metrics" =>
          (stats[2].AvgTTR - stats[1].AvgTTR) * 100 > 2 * stats[1].AvgTTR

\* C19: an endpoint that fails in every run is not in the ranked list and is
\* never selected; the selected endpoint has SuccessCount > 0; in scenario A
\* the ranked order is <<X, Y>> and, with thresholdPercent = 2, X is selected
\* whatever the draw.
C19_EndToEnd ==
    /\ Ranked =>
          \A u \in Sites :
              SuccessPlaces(u) = {} => u \notin Range(RankedURLs)
    /\ ppc = "done" =>
          /\ selectedURL \in DOMAIN stats
          /\ stats[selectedURL].SuccessCount > 0
          /\ SuccessPlaces(selectedURL) # {}
    /\ (ScenarioA /\ Ranked) => RankedURLs = <<1, 2>>
    /\ (ScenarioA /\ ppc = "done" /\ thresholdPercent = 2) => selectedURL = 1

\* C19 witness: scenario A over two runs, selection with threshold 2 and the
\* draw that takes the runner-up in the hedge.
C19_Witness ==
    /\ ScenarioA
    /\ runs = 2
    /\ stats[1].MinLatency < stats[1].MaxLatency
    /\ ppc = "done"
    /\ thresholdPercent = 2
    /\ draw >= HedgeTenths
    /\ selectedURL = 1

\* The first two entries of the ranked list have the same mean on each metric.
LeadersIdentical ==
    /\ Len(rankedSites) >= 2
    /\ rankedSites[1].SiteStats.AvgLatency = rankedSites[2].SiteStats.AvgLatency
    /\ rankedSites[1].SiteStats.AvgTTR = rankedSites[2].SiteStats.AvgTTR

\* The selector's result on the hedge branch.
HedgeResult == IF draw < HedgeTenths THEN RankedURLs[1] ELSE RankedURLs[2]

\* C20 as stated: when the two leading endpoints have identical means on
\* every metric, both have rank 1 on each metric, their combined ranks are
\* equal and the selector takes the hedge branch for every thresholdPercent
\* >= 0; with thresholdPercent = 0 and a positive gap it returns the top one.
C20_TiedLeadersRankOne ==
    (variant = "metrics" /\ ppc = "done" /\ Len(rankedSites) >= 2) =>
        /\ LeadersIdentical =>
              /\ \A k \in 1..2 :
                    /\ rankedSites[k].LatencyRank = 1
                    /\ rankedSites[k].TTRRank = 1
              /\ rankedSites[1].CombinedRank2 = rankedSites[2].CombinedRank2
              /\ selectedURL = HedgeResult
        /\ (thresholdPercent = 0
              /\ rankedSites[2].CombinedRank2 > rankedSites[1].CombinedRank2)
              => selectedURL = RankedURLs[1]

\* C20 amended: when the two leading endpoints have identical means on every
\* metric, both have the same rank on each metric (rank 1 on a metric on
\* which no ranked endpoint has a smaller mean), their combined ranks are
\* equal and the selector takes the hedge branch for every thresholdPercent
\* >= 0; with thresholdPercent = 0 and a positive gap it returns the top one.
C20_TiedLeadersShareRanks ==
    (variant = "metrics" /\ ppc = "done" /\ Len(rankedSites) >= 2) =>
        /\ LeadersIdentical =>
              /\ rankedSites[1].LatencyRank = rankedSites[2].LatencyRank
              /\ rankedSites[1].TTRRank = rankedSites[2].TTRRank
              /\ (\A k \in 1..Len(rankedSites) :
                     rankedSites[k].SiteStats.AvgLatency >= rankedSites[1].SiteStats.AvgLatency)
                    => rankedSites[1].LatencyRank = 1
              /\ (\A k \in 1..Len(rankedSites) :
                     rankedSites[k].SiteStats.AvgTTR >= rankedSites[1].SiteStats.AvgTTR)
                    => rankedSites[1].TTRRank = 1
              /\ rankedSites[1].CombinedRank2 = rankedSites[2].CombinedRank2
              /\ selectedURL = HedgeResult
        /\ (thresholdPercent = 0
              /\ rankedSites[2].CombinedRank2 > rankedSites[1].CombinedRank2)
              => selectedURL = RankedURLs[1]

\* C20 witness: two leaders with identical means whose latency rank is 2,
\* thresholdPercent = 0, and the draw gives the runner-up.
C20_Witness ==
    /\ variant = "metrics"
    /\ ppc = "done"
    /\ LeadersIdentical
    /\ rankedSites[1].LatencyRank = 2
    /\ thresholdPercent = 0
    /\ draw >= HedgeTenths
    /\ selectedURL = RankedURLs[2]

\* ------------------------------------------------ claims: the fold's frame
\* The places <<run, index>> of all samples of allResults.
Places ==
    UNION {{<<r, k>> : k \in 1..Len(allResults[r])} : r \in 1..Len(allResults)}

\* allResults without the sample at the place rk.
Without(rk) ==
    [allResults EXCEPT ![rk[1]] =
        SubSeq(@, 1, rk[2] - 1) \o SubSeq(@, rk[2] + 1, Len(@))]

\* C21: a failure sample contributes its endpoint's FailureCount (+1) and
\* nothing else: but for that count, the statistics are those of the same
\* samples without it, for its own endpoint (sums, Min, Max, SuccessCount)
\* and for every other endpoint, also when it is the first sample of its
\* endpoint.
C21_FailureOnlyCounts ==
    (Aggregated /\ variant = "metrics") =>
        \A rk \in Places :
            allResults[rk[1]][rk[2]].Error =>
                LET u == allResults[rk[1]][rk[2]].URL
                    rest == calculateStats(variant, Without(rk))
                IN  /\ \A w \in DOMAIN stats \ {u} :
                          w \in DOMAIN rest /\ stats[w] = rest[w]
                    /\ IF u \in DOMAIN rest
                          THEN stats[u] = [rest[u] EXCEPT !.FailureCount = @ + 1]
                          ELSE /\ stats[u].FailureCount = 1
                               /\ stats[u].SuccessCount = 0
                               /\ stats[u].AvgLatency = 0
                               /\ stats[u].AvgTTR = 0

\* ------------------------------------------- claims: semaphore accounting
\* C22: the number of tokens in the semaphore channel is the number of
\* goroutines between their send and their deferred receive; every token is
\* given back, also on the early return of testLatency after a probe error,
\* so the channel is empty when the call returns.
C22_SemaphoreAccounting ==
    /\ sem = NumActive
    /\ CallReturned => sem = 0

\* C22 witness: a call of testLatency has returned with an empty semaphore
\* after one probe failed (the early return) and another succeeded.
C22_Witness ==
    /\ variant = "latency"
    /\ CallReturned
    /\ sem = 0
    /\ concurrencyLimit = 1
    /\ \E g \in Sites : probed[g] # NoSample /\ probed[g].Error
    /\ \E g \in Sites : probed[g] # NoSample /\ ~probed[g].Error

\* ------------------------------------ claims: order of the samples, driver
\* C23: the statistics depend on the samples only, not on their order:
\* rearranging the samples of a batch, or the batches, gives the same record
\* for every endpoint.
C23_OrderIndependent ==
    Aggregated =>
        /\ \A p \in Orders(Len(allResults)) :
              calculateStats(variant, [k \in 1..Len(allResults) |-> allResults[p[k]]])
                  = stats
        /\ \A r \in 1..Len(allResults) :
              \A q \in Perms(allResults[r]) :
                  calculateStats(variant, [allResults EXCEPT ![r] = q]) = stats

\* main is past its overall statistics.
PastOverall == ppc \in {"call", "done", "reported", "panic"}

\* C24: when an endpoint has a successful sample, main reaches the selection
\* and ends with a selected URL of the list, without a crash, also when one
\* endpoint only is ranked.
C24_DriverSelects ==
    (PastOverall /\ \E u \in DOMAIN stats : stats[u].SuccessCount > 0) =>
        /\ ppc \in {"call", "done"}
        /\ ppc = "done" => selectedURL \in Range(RankedURLs)

\* ------------------------------------------- claims: detectEnglishSites
\* What holds in every state of a call of detectEnglishSites.
EnglishSafe ==
    /\ epc # "panic"
    /\ \A g \in Sites : wpc[g] # "panic"
    /\ \A g \in Sites : wpc[g] = "send" => Len(ch) < nSites
    /\ closed => (started = nSites /\ \A g \in Sites : wpc[g] = "done")
    /\ epc = "returned" =>
          /\ closed
          /\ ch = <<>>
          /\ Range(englishSites) = {g \in Sites : verdict[g]}
          /\ Len(englishSites) = Cardinality({g \in Sites : verdict[g]})

\* C25: detectEnglishSites terminates and returns exactly the sites for
\* which isEnglish returned true, each once; no worker blocks on its send,
\* the channel is closed only after all workers have finished, no send
\* follows the close, and the collecting loop ends on the closed and drained
\* channel.
C25_DetectEnglishSites == []EnglishSafe /\ <>(epc = "returned")

\* C25 witness: of three sites two are English; their worker's sends arrived
\* in the other order than the sites were given.
C25_Witness ==
    /\ epc = "returned"
    /\ nSites = 3
    /\ Len(englishSites) = 2
    /\ englishSites[1] > englishSites[2]
    /\ \E g \in Sites : ~verdict[g]

====
